---- MODULE Spec2Model ----
(***************************************************************************)
(* bevy_time::Stopwatch (crates/bevy_time/src/stopwatch.rs).               *)
(*                                                                         *)
(* A Stopwatch is a value { elapsed: Duration, is_paused: bool }.  The     *)
(* Duration is core::time::Duration: whole seconds in a u64 plus           *)
(* sub-second nanoseconds in 0 .. NANOS_PER_SEC-1.  The widths are scaled  *)
(* down (U64_MAX, NANOS_PER_SEC) so that the carry out of the nanosecond   *)
(* field and the overflow of the seconds field both happen within the      *)
(* explored state space.                                                   *)
(***************************************************************************)
EXTENDS Integers, Sequences, FiniteSets, TLC

\* ---------------------------------------------------------------- bounds
\* Largest value of the seconds field (stands for u64::MAX).
U64_MAX == 2
\* Sub-second units per second (stands for 1_000_000_000).
NANOS_PER_SEC == 3
\* Longest run of unpaused ticks from zero that is recorded delta by delta.
MaxTicks == 2
\* Cap of the counter of consecutive ticks made while paused.
MaxRun == 3
\* Values per second that an f32 can tell apart (stands for its 24-bit mantissa).
F32_GRID == 4
\* Values per second that an f64 can tell apart (stands for its 53-bit mantissa).
F64_GRID == 8

\* ------------------------------------------------------- core::time::Duration
Duration == [secs : 0..U64_MAX, nanos : 0..(NANOS_PER_SEC - 1)]

\* Duration::default() / Duration::ZERO
ZERO == [secs |-> 0, nanos |-> 0]

\* Duration::MAX = Duration::new(u64::MAX, NANOS_PER_SEC - 1)
MAX == [secs |-> U64_MAX, nanos |-> NANOS_PER_SEC - 1]

\* Option<Duration>::None
None == [none |-> TRUE]

\* Duration::checked_add: None when the seconds overflow, either directly or
\* through the carry out of the nanosecond field.
checked_add(self, rhs) ==
    IF self.secs + rhs.secs <= U64_MAX
    THEN LET secs  == self.secs + rhs.secs
             nanos == self.nanos + rhs.nanos
         IN  IF nanos >= NANOS_PER_SEC
             THEN IF secs + 1 <= U64_MAX
                  THEN [secs |-> secs + 1, nanos |-> nanos - NANOS_PER_SEC]
                  ELSE None
             ELSE [secs |-> secs, nanos |-> nanos]
    ELSE None

\* Duration::saturating_add: checked_add, clamped to Duration::MAX.
saturating_add(self, rhs) ==
    LET res == checked_add(self, rhs)
    IN  IF res = None THEN MAX ELSE res

\* Duration::as_nanos: the duration as one number of sub-second units.
as_nanos(d) == d.secs * NANOS_PER_SEC + d.nanos

\* A quotient rounded to the nearest integer, as a float operation rounds.
RoundDiv(n, d) == (2 * n + d) \div (2 * d)

\* Duration::as_secs_f32: (secs as f32) + (nanos as f32) / (NANOS_PER_SEC as f32),
\* as a count of the f32 grid units.
as_secs_f32(d) == d.secs * F32_GRID + RoundDiv(d.nanos * F32_GRID, NANOS_PER_SEC)

\* Duration::as_secs_f64: the same in f64.
as_secs_f64(d) == d.secs * F64_GRID + RoundDiv(d.nanos * F64_GRID, NANOS_PER_SEC)

\* ------------------------------------------------------------- Stopwatch
Stopwatch == [elapsed : Duration, is_paused : BOOLEAN]

\* Variant of new that starts paused.
new_paused == [elapsed |-> ZERO, is_paused |-> TRUE]

\* Stopwatch::new() = Default::default()
new == [elapsed |-> ZERO, is_paused |-> FALSE]

\* Stopwatch::elapsed(&self)
elapsed(self) == self.elapsed

\* Stopwatch::is_paused(&self)
is_paused(self) == self.is_paused

\* Variant of elapsed_secs that converts the whole seconds only.
elapsed_secs_whole(self) == elapsed(self).secs * F32_GRID

\* Stopwatch::elapsed_secs(&self)
elapsed_secs(self) == as_secs_f32(elapsed(self))

\* Stopwatch::elapsed_secs_f64(&self)
elapsed_secs_f64(self) == as_secs_f64(elapsed(self))

\* Variant of clone that does not carry the pause flag over.
clone_unpaused(self) == [self EXCEPT !.is_paused = FALSE]

\* Stopwatch::clone(&self), from derive(Clone): a field-by-field copy.
clone(self) == [elapsed |-> self.elapsed, is_paused |-> self.is_paused]

\* Variant of set_elapsed that is gated by the pause flag like tick.
set_elapsed_gated(self, time) ==
    IF ~self.is_paused THEN [self EXCEPT !.elapsed = time] ELSE self

\* Variant of set_elapsed that also unpauses.
set_elapsed_unpausing(self, time) == [elapsed |-> time, is_paused |-> FALSE]

\* Stopwatch::set_elapsed(&mut self, time)
set_elapsed(self, time) == [self EXCEPT !.elapsed = time]

\* Variant of tick that assigns the delta instead of accumulating it.
tick_overwrite(self, delta) ==
    IF ~self.is_paused THEN [self EXCEPT !.elapsed = delta] ELSE self

\* Variant of tick that does not look at the pause flag.
tick_ungated(self, delta) ==
    [self EXCEPT !.elapsed = saturating_add(self.elapsed, delta)]

\* Variant of tick whose test of the pause flag is inverted.
tick_inverted(self, delta) ==
    IF self.is_paused
    THEN [self EXCEPT !.elapsed = saturating_add(self.elapsed, delta)]
    ELSE self

\* Variant of tick that adds with wrap-around instead of saturation.
tick_wrapping(self, delta) ==
    IF ~self.is_paused
    THEN LET n == (as_nanos(self.elapsed) + as_nanos(delta)) % (as_nanos(MAX) + 1)
         IN  [self EXCEPT !.elapsed = [secs  |-> n \div NANOS_PER_SEC,
                                       nanos |-> n % NANOS_PER_SEC]]
    ELSE self

\* Variant of tick that loses the carry out of the sub-second field.
tick_carry_lost(self, delta) ==
    IF ~self.is_paused
    THEN [self EXCEPT !.elapsed =
             [secs  |-> IF self.elapsed.secs + delta.secs <= U64_MAX
                        THEN self.elapsed.secs + delta.secs ELSE U64_MAX,
              nanos |-> (self.elapsed.nanos + delta.nanos) % NANOS_PER_SEC]]
    ELSE self

\* Variant of tick that adds with the panicking operator +: on overflow
\* there is no stopwatch value left to continue with.
tick_panicking(self, delta) ==
    IF ~self.is_paused
    THEN LET res == checked_add(self.elapsed, delta)
         IN  IF res = None THEN None ELSE [self EXCEPT !.elapsed = res]
    ELSE self

\* Variant of tick that adds the fields without clamping the seconds.
tick_unclamped(self, delta) ==
    IF ~self.is_paused
    THEN LET n == as_nanos(self.elapsed) + as_nanos(delta)
         IN  [self EXCEPT !.elapsed = [secs  |-> n \div NANOS_PER_SEC,
                                       nanos |-> n % NANOS_PER_SEC]]
    ELSE self

\* Variant of tick that falls back to the default duration on overflow.
tick_overflow_default(self, delta) ==
    IF ~self.is_paused
    THEN LET res == checked_add(self.elapsed, delta)
         IN  [self EXCEPT !.elapsed = IF res = None THEN ZERO ELSE res]
    ELSE self

\* Stopwatch::tick(&mut self, delta)
tick(self, delta) ==
    IF ~is_paused(self)
    THEN [self EXCEPT !.elapsed = saturating_add(self.elapsed, delta)]
    ELSE self

\* Variant of pause that toggles the flag.
pause_toggle(self) == [self EXCEPT !.is_paused = ~self.is_paused]

\* Variant of pause that also clears the elapsed time.
pause_resetting(self) == [elapsed |-> ZERO, is_paused |-> TRUE]

\* Stopwatch::pause(&mut self)
pause(self) == [self EXCEPT !.is_paused = TRUE]

\* Variant of unpause that leaves the flag as it is.
unpause_noop(self) == self

\* Variant of unpause that replaces the whole value by the default.
unpause_default(self) == [elapsed |-> ZERO, is_paused |-> FALSE]

\* Stopwatch::unpause(&mut self)
unpause(self) == [self EXCEPT !.is_paused = FALSE]

\* Variant of reset that replaces the whole value by the default.
reset_default(self) == [elapsed |-> ZERO, is_paused |-> FALSE]

\* Stopwatch::reset(&mut self)
reset(self) == [self EXCEPT !.elapsed = ZERO]

\* ------------------------------------------------------------------ state
VARIABLES
    stopwatch,  \* the Stopwatch value owned by the caller
    op,         \* name of the last mutating call ("new" after construction)
    args,       \* its argument list
    pre,        \* the Stopwatch value right before that call
    rd,         \* name of the last reader called since then, or "none"
    ret,        \* value returned by the last call, as a one-element list
    run_len,    \* number of consecutive ticks made while paused (capped)
    run_base,   \* elapsed when that run of paused ticks began
    phase,      \* "none", "paused" (just paused), "resumed" (then unpaused)
    twin,       \* a never-paused stopwatch that started with the elapsed the
                \* stopwatch had at pause() and gets the ticks made after unpause()
    tracking,   \* TRUE while only unpaused ticks happened since elapsed was 0
    ticks,      \* the deltas of those ticks, in call order
    pristine,   \* TRUE while neither reset nor set_elapsed has been called
    counted,    \* saturating sum of the deltas ticked while unpaused
    skipped,    \* sum of the deltas ticked while paused (capped above one second)
    last_toggle,\* "pause" or "unpause", whichever was called last, or "none"
    copy,       \* a second Stopwatch value, made by clone()
    cloned,     \* TRUE once copy has been made
    target      \* which value the last call was made on: "original" or "copy"

vars == <<stopwatch, op, args, pre, rd, ret, run_len, run_base, phase, twin,
          tracking, ticks, pristine, counted, skipped, last_toggle,
          copy, cloned, target>>

\* The variables of the copy.
cloneVars == <<copy, cloned, target>>

\* The record of the calls made on the original.
callVars == <<args, pre, rd, ret, run_len, run_base, phase, twin,
              tracking, ticks, pristine, counted, skipped, last_toggle>>

Min(a, b) == IF a <= b THEN a ELSE b

Init ==
    /\ stopwatch = new
    /\ op = "new"
    /\ args = <<>>
    /\ pre = new
    /\ rd = "none"
    /\ ret = <<new>>
    /\ run_len = 0
    /\ run_base = ZERO
    /\ phase = "none"
    /\ twin = new
    /\ tracking = TRUE
    /\ ticks = <<>>
    /\ pristine = TRUE
    /\ counted = 0
    /\ skipped = 0
    /\ last_toggle = "none"
    /\ copy = new
    /\ cloned = FALSE
    /\ target = "original"

\* Bookkeeping shared by the mutating calls other than tick: a new run of
\* unpaused ticks from zero starts exactly when the call leaves the stopwatch
\* unpaused with nothing elapsed.
Retrack(sw) ==
    /\ tracking' = (sw.elapsed = ZERO /\ ~sw.is_paused)
    /\ ticks' = <<>>
    /\ run_len' = 0
    /\ run_base' = sw.elapsed

\* stopwatch.tick(delta)
Tick(delta) ==
    /\ stopwatch' = tick(stopwatch, delta)
    /\ op' = "tick"
    /\ args' = <<delta>>
    /\ pre' = stopwatch
    /\ rd' = "none"
    /\ ret' = <<stopwatch'>>
    /\ IF stopwatch.is_paused
       THEN /\ run_len' = Min(run_len + 1, MaxRun)
            /\ run_base' = IF run_len = 0 THEN stopwatch.elapsed ELSE run_base
            /\ skipped' = IF pristine
                          THEN Min(skipped + as_nanos(delta), NANOS_PER_SEC + 1)
                          ELSE skipped
            /\ UNCHANGED counted
       ELSE /\ run_len' = 0
            /\ run_base' = stopwatch'.elapsed
            /\ counted' = IF pristine
                          THEN Min(counted + as_nanos(delta), as_nanos(MAX))
                          ELSE counted
            /\ UNCHANGED skipped
    /\ IF phase = "resumed"
       THEN /\ twin' = tick(twin, delta)
            /\ UNCHANGED phase
       ELSE /\ phase' = "none"
            /\ twin' = new
    /\ IF tracking /\ Len(ticks) < MaxTicks
       THEN /\ ticks' = Append(ticks, delta)
            /\ UNCHANGED tracking
       ELSE /\ ticks' = <<>>
            /\ tracking' = FALSE
    /\ UNCHANGED <<pristine, last_toggle, cloneVars>>

\* stopwatch.pause()
Pause ==
    /\ stopwatch' = pause(stopwatch)
    /\ op' = "pause"
    /\ args' = <<>>
    /\ pre' = stopwatch
    /\ rd' = "none"
    /\ ret' = <<>>
    /\ phase' = "paused"
    /\ twin' = [elapsed |-> stopwatch.elapsed, is_paused |-> FALSE]
    /\ Retrack(stopwatch')
    /\ last_toggle' = "pause"
    /\ UNCHANGED <<pristine, counted, skipped, cloneVars>>

\* stopwatch.unpause()
Unpause ==
    /\ stopwatch' = unpause(stopwatch)
    /\ op' = "unpause"
    /\ args' = <<>>
    /\ pre' = stopwatch
    /\ rd' = "none"
    /\ ret' = <<>>
    /\ IF phase = "paused"
       THEN /\ phase' = "resumed"
            /\ UNCHANGED twin
       ELSE /\ phase' = "none"
            /\ twin' = new
    /\ Retrack(stopwatch')
    /\ last_toggle' = "unpause"
    /\ UNCHANGED <<pristine, counted, skipped, cloneVars>>

\* stopwatch.reset()
Reset ==
    /\ stopwatch' = reset(stopwatch)
    /\ op' = "reset"
    /\ args' = <<>>
    /\ pre' = stopwatch
    /\ rd' = "none"
    /\ ret' = <<>>
    /\ phase' = "none"
    /\ twin' = new
    /\ Retrack(stopwatch')
    /\ pristine' = FALSE
    /\ counted' = 0
    /\ skipped' = 0
    /\ UNCHANGED <<last_toggle, cloneVars>>

\* stopwatch.set_elapsed(time)
SetElapsed(time) ==
    /\ stopwatch' = set_elapsed(stopwatch, time)
    /\ op' = "set_elapsed"
    /\ args' = <<time>>
    /\ pre' = stopwatch
    /\ rd' = "none"
    /\ ret' = <<>>
    /\ phase' = "none"
    /\ twin' = new
    /\ Retrack(stopwatch')
    /\ pristine' = FALSE
    /\ counted' = 0
    /\ skipped' = 0
    /\ UNCHANGED <<last_toggle, cloneVars>>

\* stopwatch.elapsed()
Elapsed ==
    /\ rd' = "elapsed"
    /\ ret' = <<elapsed(stopwatch)>>
    /\ UNCHANGED <<stopwatch, op, args, pre, run_len, run_base, phase, twin,
                   tracking, ticks, pristine, counted, skipped, last_toggle,
                   cloneVars>>

\* stopwatch.is_paused()
IsPaused ==
    /\ rd' = "is_paused"
    /\ ret' = <<is_paused(stopwatch)>>
    /\ UNCHANGED <<stopwatch, op, args, pre, run_len, run_base, phase, twin,
                   tracking, ticks, pristine, counted, skipped, last_toggle,
                   cloneVars>>

\* stopwatch.elapsed_secs()
ElapsedSecs ==
    /\ rd' = "elapsed_secs"
    /\ ret' = <<elapsed_secs(stopwatch)>>
    /\ UNCHANGED <<stopwatch, op, args, pre, run_len, run_base, phase, twin,
                   tracking, ticks, pristine, counted, skipped, last_toggle,
                   cloneVars>>

\* stopwatch.elapsed_secs_f64()
ElapsedSecsF64 ==
    /\ rd' = "elapsed_secs_f64"
    /\ ret' = <<elapsed_secs_f64(stopwatch)>>
    /\ UNCHANGED <<stopwatch, op, args, pre, run_len, run_base, phase, twin,
                   tracking, ticks, pristine, counted, skipped, last_toggle,
                   cloneVars>>

Next ==
    \/ \E delta \in Duration : Tick(delta)
    \/ Pause
    \/ Unpause
    \/ Reset
    \/ \E time \in Duration : SetElapsed(time)
    \/ Elapsed
    \/ IsPaused
    \/ ElapsedSecs
    \/ ElapsedSecsF64

Spec == Init /\ [][Next]_vars

TypeOK ==
    /\ stopwatch \in Stopwatch
    /\ pre \in Stopwatch
    /\ twin \in Stopwatch
    /\ op \in {"new", "tick", "pause", "unpause", "reset", "set_elapsed"}
    /\ rd \in {"none", "elapsed", "is_paused", "elapsed_secs", "elapsed_secs_f64"}
    /\ last_toggle \in {"none", "pause", "unpause"}
    /\ copy \in Stopwatch
    /\ cloned \in BOOLEAN
    /\ target \in {"original", "copy"}
    /\ run_len \in 0..MaxRun
    /\ phase \in {"none", "paused", "resumed"}
    /\ tracking \in BOOLEAN
    /\ pristine \in BOOLEAN
    /\ Len(ticks) <= MaxTicks

\* ----------------------------------------------------------------- claims

\* C1: tick(delta) on an unpaused stopwatch leaves elapsed a well-formed
\* duration equal to min(previous elapsed + delta, MAX), and leaves
\* is_paused false.
C1_TickSaturatingSum ==
    (op = "tick" /\ ~pre.is_paused) =>
        /\ stopwatch.elapsed \in Duration
        /\ as_nanos(stopwatch.elapsed) =
               Min(as_nanos(pre.elapsed) + as_nanos(args[1]), as_nanos(MAX))
        /\ ~stopwatch.is_paused

\* An unpaused tick whose sub-second parts carry into the seconds, without
\* saturating.
C1_Witness ==
    /\ op = "tick"
    /\ ~pre.is_paused
    /\ pre.elapsed.nanos + args[1].nanos >= NANOS_PER_SEC
    /\ pre.elapsed.secs > 0
    /\ as_nanos(stopwatch.elapsed) < as_nanos(MAX)
    /\ stopwatch.elapsed.secs = pre.elapsed.secs + args[1].secs + 1

\* C2: during a run of ticks made while paused, whatever its length and its
\* deltas, elapsed stays what it was when the run began and the stopwatch
\* stays paused; and tick is enabled for every delta while paused.
C2_PausedTicksKeepElapsed ==
    /\ run_len > 0 =>
           /\ stopwatch.elapsed = run_base
           /\ stopwatch.is_paused
           /\ stopwatch = pre
    /\ stopwatch.is_paused => \A delta \in Duration : ENABLED Tick(delta)

\* Several nonzero ticks in a row on a paused stopwatch with time on it.
C2_Witness ==
    /\ run_len >= 2
    /\ op = "tick"
    /\ args[1] # ZERO
    /\ stopwatch.is_paused
    /\ stopwatch.elapsed # ZERO
    /\ stopwatch.elapsed # MAX

\* C3: an unpaused tick whose sum exceeds the maximum duration returns with
\* elapsed equal to the maximum: not wrapped, not smaller than before.
C3_OverflowSaturates ==
    (/\ op = "tick"
     /\ ~pre.is_paused
     /\ as_nanos(pre.elapsed) + as_nanos(args[1]) > as_nanos(MAX)) =>
        /\ stopwatch.elapsed = MAX
        /\ as_nanos(stopwatch.elapsed) >= as_nanos(pre.elapsed)
        /\ rd = "elapsed" => ret = <<MAX>>

\* The seconds alone fit; the overflow comes from the carry of the
\* sub-second parts.
C3_Witness ==
    /\ op = "tick"
    /\ ~pre.is_paused
    /\ pre.elapsed.secs + args[1].secs = U64_MAX
    /\ pre.elapsed.secs > 0
    /\ args[1].secs > 0
    /\ pre.elapsed.nanos + args[1].nanos >= NANOS_PER_SEC
    /\ pre.elapsed # MAX
    /\ stopwatch.elapsed = MAX
    /\ rd = "elapsed"

\* C4: after reset() elapsed is zero whatever it was and whatever the pause
\* state, and is_paused is what it was before the call; the readers called
\* next return these values.
C4_ResetZeroKeepsPause ==
    op = "reset" =>
        /\ stopwatch.elapsed = ZERO
        /\ stopwatch.is_paused = pre.is_paused
        /\ rd = "elapsed" => ret = <<ZERO>>
        /\ rd = "is_paused" => ret = <<pre.is_paused>>

\* reset() of a paused stopwatch with time on it, then is_paused() is read.
C4_Witness ==
    /\ op = "reset"
    /\ pre.is_paused
    /\ pre.elapsed # ZERO
    /\ rd = "is_paused"
    /\ ret = <<TRUE>>
    /\ stopwatch.elapsed = ZERO

\* C5: every step other than a reset() or set_elapsed() call (tick, pause,
\* unpause and the readers) leaves elapsed at least what it was.
C5_ElapsedMonotone ==
    [][ \/ (rd' = "none" /\ op' \in {"reset", "set_elapsed"})
        \/ as_nanos(stopwatch'.elapsed) >= as_nanos(stopwatch.elapsed) ]_vars

\* A tick that increased a nonzero elapsed.
C5_Witness ==
    /\ op = "tick"
    /\ pre.elapsed # ZERO
    /\ as_nanos(stopwatch.elapsed) > as_nanos(pre.elapsed)
    /\ rd = "is_paused"

\* C6: after pause() then unpause() and any ticks made after that, the
\* stopwatch equals, in both fields, a stopwatch that started with the same
\* elapsed, was never paused and received the same ticks.
C6_PauseUnpauseLikeNeverPaused ==
    phase = "resumed" => stopwatch = twin

\* A nonzero tick after pause() and unpause(), on a stopwatch with time on it.
C6_Witness ==
    /\ phase = "resumed"
    /\ op = "tick"
    /\ pre.elapsed # ZERO
    /\ args[1] # ZERO
    /\ stopwatch.elapsed # pre.elapsed
    /\ stopwatch.elapsed # MAX
    /\ stopwatch = twin

\* The sum of the deltas of a list, as a number of sub-second units.
RECURSIVE SumNanos(_)
SumNanos(s) == IF s = <<>> THEN 0 ELSE as_nanos(Head(s)) + SumNanos(Tail(s))

\* The stopwatch after ticking it by each delta of a list, in order.
RECURSIVE TickAll(_, _)
TickAll(sw, s) == IF s = <<>> THEN sw ELSE TickAll(tick(sw, Head(s)), Tail(s))

\* The deltas of a list added up into one duration, saturating.
RECURSIVE SatSum(_)
SatSum(s) == IF s = <<>> THEN ZERO ELSE saturating_add(Head(s), SatSum(Tail(s)))

\* C7: after a run of unpaused ticks from elapsed 0, elapsed is the sum of
\* the deltas clamped to the maximum; ticking the same deltas in any other
\* order, or grouped into two ticks of partial sums, gives the same elapsed.
C7_TickOrderIndependent ==
    tracking =>
        LET n == Len(ticks)
        IN  /\ as_nanos(stopwatch.elapsed) = Min(SumNanos(ticks), as_nanos(MAX))
            /\ \A p \in Permutations(1..n) :
                   TickAll(new, [i \in 1..n |-> ticks[p[i]]]) = stopwatch
            /\ \A k \in 0..n :
                   TickAll(new, <<SatSum(SubSeq(ticks, 1, k)),
                                  SatSum(SubSeq(ticks, k + 1, n))>>) = stopwatch

\* Two different nonzero deltas ticked from zero, with a carry between them
\* and no saturation.
C7_Witness ==
    /\ tracking
    /\ Len(ticks) = 2
    /\ ticks[1] # ZERO
    /\ ticks[2] # ZERO
    /\ ticks[1] # ticks[2]
    /\ ticks[1].nanos + ticks[2].nanos >= NANOS_PER_SEC
    /\ stopwatch.elapsed # MAX
    /\ op = "tick"

\* C8: on a stopwatch that has only been ticked, paused and unpaused since
\* construction, elapsed is the saturating sum of exactly the deltas whose
\* tick was called while it was not paused.
C8_OnlyUnpausedTicksCount ==
    pristine => as_nanos(stopwatch.elapsed) = counted

\* construct, pause, tick(1s), unpause, tick(1s): one second elapsed, one
\* second skipped.
C8_Witness ==
    /\ pristine
    /\ op = "tick"
    /\ args = <<[secs |-> 1, nanos |-> 0]>>
    /\ ~pre.is_paused
    /\ pre.elapsed = ZERO
    /\ skipped = NANOS_PER_SEC
    /\ counted = NANOS_PER_SEC
    /\ stopwatch = [elapsed |-> [secs |-> 1, nanos |-> 0], is_paused |-> FALSE]

\* C9: pause() leaves is_paused true and unpause() leaves it false; neither
\* changes elapsed; a second call in a row changes nothing, and a call made
\* in the state it establishes changes nothing.
C9_PauseUnpauseIdempotent ==
    /\ op = "pause" =>
           /\ stopwatch.is_paused
           /\ stopwatch.elapsed = pre.elapsed
           /\ pause(stopwatch) = stopwatch
           /\ pre.is_paused => stopwatch = pre
    /\ op = "unpause" =>
           /\ ~stopwatch.is_paused
           /\ stopwatch.elapsed = pre.elapsed
           /\ unpause(stopwatch) = stopwatch
           /\ ~pre.is_paused => stopwatch = pre

\* pause() called on a stopwatch that is already paused and has time on it.
C9_Witness ==
    /\ op = "pause"
    /\ pre.is_paused
    /\ pre.elapsed # ZERO
    /\ stopwatch = pre
    /\ rd = "is_paused"
    /\ ret = <<TRUE>>

\* C10: set_elapsed(d) leaves elapsed equal to d and the pause flag as it
\* was, paused or not; it is enabled for every d in every state; and
\* elapsed() read right after it returns d.
C10_SetElapsedOverwrites ==
    /\ op = "set_elapsed" =>
           /\ stopwatch.elapsed = args[1]
           /\ stopwatch.is_paused = pre.is_paused
           /\ rd = "elapsed" => ret = <<args[1]>>
    /\ \A time \in Duration : ENABLED SetElapsed(time)

\* set_elapsed on a paused stopwatch, to a smaller nonzero value, then read.
C10_Witness ==
    /\ op = "set_elapsed"
    /\ pre.is_paused
    /\ args[1] # ZERO
    /\ as_nanos(args[1]) < as_nanos(pre.elapsed)
    /\ rd = "elapsed"
    /\ ret = args
    /\ stopwatch.elapsed = args[1]


\* C11: a newly constructed stopwatch has elapsed 0 and is not paused, and
\* its readers return exactly that.
C11_NewIsZeroUnpaused ==
    op = "new" =>
        /\ stopwatch.elapsed = ZERO
        /\ as_nanos(stopwatch.elapsed) = 0
        /\ stopwatch.is_paused = FALSE
        /\ rd = "elapsed" => ret = <<ZERO>>
        /\ rd = "is_paused" => ret = <<FALSE>>
        /\ rd = "elapsed_secs" => ret = <<0>>

\* is_paused() read on a stopwatch that has just been constructed.
C11_Witness ==
    /\ op = "new"
    /\ rd = "is_paused"
    /\ ret = <<FALSE>>
    /\ stopwatch.elapsed = ZERO

\* C12: a step changes elapsed only if it is a tick made while not paused, a
\* set_elapsed or a reset; a tick while paused, pause, unpause and the four
\* readers leave elapsed as it was.
C12_ElapsedChangesOnlyBy ==
    [][ stopwatch'.elapsed # stopwatch.elapsed =>
            /\ rd' = "none"
            /\ \/ op' \in {"set_elapsed", "reset"}
               \/ op' = "tick" /\ ~stopwatch.is_paused ]_vars

\* elapsed_secs() read after pause() on a stopwatch with time on it, which
\* is still the time it had.
C12_Witness ==
    /\ op = "pause"
    /\ ~pre.is_paused
    /\ pre.elapsed # ZERO
    /\ stopwatch.elapsed = pre.elapsed
    /\ rd = "elapsed_secs"

\* C13: in every reachable state, paused or not and whatever elapsed is,
\* every operation is enabled for every argument and yields a well-formed
\* stopwatch or value; the state itself is always a well-formed stopwatch.
C13_NoOperationFails ==
    /\ stopwatch \in Stopwatch
    /\ \A d \in Duration :
           /\ tick(stopwatch, d) \in Stopwatch
           /\ set_elapsed(stopwatch, d) \in Stopwatch
           /\ ENABLED Tick(d)
           /\ ENABLED SetElapsed(d)
    /\ pause(stopwatch) \in Stopwatch
    /\ unpause(stopwatch) \in Stopwatch
    /\ reset(stopwatch) \in Stopwatch
    /\ elapsed(stopwatch) \in Duration
    /\ is_paused(stopwatch) \in BOOLEAN
    /\ ENABLED Pause
    /\ ENABLED Unpause
    /\ ENABLED Reset
    /\ ENABLED Elapsed
    /\ ENABLED IsPaused
    /\ ENABLED ElapsedSecs
    /\ ENABLED ElapsedSecsF64

\* A tick by the maximum on a paused stopwatch that is at the maximum.
C13_Witness ==
    /\ op = "tick"
    /\ pre.is_paused
    /\ pre.elapsed = MAX
    /\ args = <<MAX>>
    /\ stopwatch = pre

\* The distance between two integers.
Dist(a, b) == IF a >= b THEN a - b ELSE b - a

\* C14: elapsed_secs() and elapsed_secs_f64() return the seconds of the current
\* elapsed to within half a unit of their float type, exactly for whole
\* seconds, and calling them changes nothing of the stopwatch.
C14_SecsReadersAgree ==
    /\ [](rd = "elapsed_secs" =>
            /\ 2 * Dist(ret[1] * NANOS_PER_SEC,
                        as_nanos(elapsed(stopwatch)) * F32_GRID) <= NANOS_PER_SEC
            /\ stopwatch.elapsed.nanos = 0 =>
                   ret[1] = stopwatch.elapsed.secs * F32_GRID)
    /\ [](rd = "elapsed_secs_f64" =>
            /\ 2 * Dist(ret[1] * NANOS_PER_SEC,
                        as_nanos(elapsed(stopwatch)) * F64_GRID) <= NANOS_PER_SEC
            /\ stopwatch.elapsed.nanos = 0 =>
                   ret[1] = stopwatch.elapsed.secs * F64_GRID)
    /\ [][rd' \in {"elapsed_secs", "elapsed_secs_f64"} =>
              stopwatch' = stopwatch]_vars

\* elapsed_secs() read after a tick that left a fraction of a second.
C14_Witness ==
    /\ rd = "elapsed_secs"
    /\ op = "tick"
    /\ stopwatch.elapsed.secs > 0
    /\ stopwatch.elapsed.nanos > 0
    /\ ret[1] > stopwatch.elapsed.secs * F32_GRID

\* C15: in every reachable state elapsed is a duration between 0 and the
\* maximum representable duration.
C15_ElapsedInRange ==
    /\ stopwatch.elapsed \in Duration
    /\ 0 <= as_nanos(stopwatch.elapsed)
    /\ as_nanos(stopwatch.elapsed) <= as_nanos(MAX)

\* A tick whose seconds alone overflow.
C15_Witness ==
    /\ op = "tick"
    /\ ~pre.is_paused
    /\ pre.elapsed.secs = U64_MAX
    /\ args[1].secs = U64_MAX
    /\ pre.elapsed.nanos = 0
    /\ stopwatch.elapsed = MAX
    /\ rd = "none"

\* C16: is_paused is true exactly when the most recent of the pause() and
\* unpause() calls was pause(), and false when there was none; no other call
\* changes it.
C16_PausedIffLastTogglePause ==
    /\ [](stopwatch.is_paused <=> last_toggle = "pause")
    /\ [](rd = "is_paused" => ret = <<last_toggle = "pause">>)
    /\ [][ stopwatch'.is_paused # stopwatch.is_paused =>
               rd' = "none" /\ op' \in {"pause", "unpause"} ]_vars

\* set_elapsed on a paused stopwatch, which is_paused() still reports paused.
C16_Witness ==
    /\ last_toggle = "pause"
    /\ op = "set_elapsed"
    /\ args[1] # pre.elapsed
    /\ rd = "is_paused"
    /\ ret = <<TRUE>>

\* C17: once elapsed is the maximum, every step other than a reset() or a
\* set_elapsed() call leaves it at the maximum.
C17_SaturationAbsorbing ==
    [][ stopwatch.elapsed = MAX =>
            \/ stopwatch'.elapsed = MAX
            \/ rd' = "none" /\ op' \in {"reset", "set_elapsed"} ]_vars

\* A nonzero unpaused tick on a stopwatch that was already at the maximum.
C17_Witness ==
    /\ op = "tick"
    /\ ~pre.is_paused
    /\ pre.elapsed = MAX
    /\ args[1] # ZERO
    /\ args[1] # MAX
    /\ stopwatch.elapsed = MAX

\* ------------------------------------------------- two values: clone()
\* The calls made on one of two Stopwatch values, the original and its
\* clone.  Each value is owned separately: a call on one is a write to that
\* value only.

\* A mutating call on the value t, which becomes orig_after / copy_after.
CallOn(t, name, orig_after, copy_after) ==
    /\ t = "copy" => cloned
    /\ op' = name
    /\ target' = t
    /\ stopwatch' = IF t = "original" THEN orig_after ELSE stopwatch
    /\ copy' = IF t = "copy" THEN copy_after ELSE copy
    /\ UNCHANGED <<cloned, callVars>>

\* let copy = stopwatch.clone()
Clone ==
    /\ copy' = clone(stopwatch)
    /\ cloned' = TRUE
    /\ op' = "clone"
    /\ target' = "original"
    /\ UNCHANGED <<stopwatch, callVars>>

\* t.tick(delta)
TickOn(t, delta) == CallOn(t, "tick", tick(stopwatch, delta), tick(copy, delta))

\* t.pause()
PauseOn(t) == CallOn(t, "pause", pause(stopwatch), pause(copy))

\* t.unpause()
UnpauseOn(t) == CallOn(t, "unpause", unpause(stopwatch), unpause(copy))

\* t.reset()
ResetOn(t) == CallOn(t, "reset", reset(stopwatch), reset(copy))

\* t.set_elapsed(time)
SetElapsedOn(t, time) ==
    CallOn(t, "set_elapsed", set_elapsed(stopwatch, time), set_elapsed(copy, time))

Values == {"original", "copy"}

NextClone ==
    \/ Clone
    \/ \E t \in Values, delta \in Duration : TickOn(t, delta)
    \/ \E t \in Values : PauseOn(t)
    \/ \E t \in Values : UnpauseOn(t)
    \/ \E t \in Values : ResetOn(t)
    \/ \E t \in Values, time \in Duration : SetElapsedOn(t, time)

SpecClone == Init /\ [][NextClone]_vars

\* C18: right after clone() the copy equals the original in both fields, and
\* from then on a call made on one of the two values leaves the elapsed and
\* the is_paused of the other as they were.
C18_CloneIndependent ==
    /\ [](op = "clone" =>
            /\ cloned
            /\ copy.elapsed = stopwatch.elapsed
            /\ copy.is_paused = stopwatch.is_paused)
    /\ [][ (cloned /\ op' # "clone") =>
               /\ target' = "original" => copy' = copy
               /\ target' = "copy" => stopwatch' = stopwatch ]_vars

\* A paused original with time on it was cloned, and the copy was then
\* unpaused and ticked: the two values differ in both fields.
C18_Witness ==
    /\ cloned
    /\ target = "copy"
    /\ op = "tick"
    /\ stopwatch.is_paused
    /\ ~copy.is_paused
    /\ stopwatch.elapsed # ZERO
    /\ as_nanos(copy.elapsed) > as_nanos(stopwatch.elapsed)

====
